---------------------------- MODULE Spec2Model ----------------------------
(***************************************************************************)
(* A model of CTPS modxlib (src/modxlib.py, version 0.2.0): the trip-table *)
(* loader, the tazManager attribute table, the metamode resolver, the      *)
(* daily-boardings aggregation and the geometry helpers.                   *)
(*                                                                         *)
(* src/modxlib/modxlib.py is the older copy (version 0.1.5) of the same    *)
(* library.  Python cannot compile it (line 295 passes a positional        *)
(* argument after a keyword argument), so it has no behaviour of its own;  *)
(* the model follows src/modxlib.py.                                       *)
(*                                                                         *)
(* Every library call is one action.  `op` names the call made last,       *)
(* `args` its arguments, `retval` what it returned and `raised` the        *)
(* exception that left it ("" when it returned normally).                  *)
(***************************************************************************)
EXTENDS Integers, Sequences, FiniteSets, TLC

VARIABLES
    _taz_table,         \* tazManager._taz_table, the class attribute
    instances,          \* the tazManager objects constructed so far
    boardings_by_tod,   \* the dict handed to calculate_total_daily_boardings
    op, args, retval, raised,
    retval_obj,         \* which list object retval names: "new" for a list built
                        \* by the call, "_taz_table" for the class attribute's
                        \* own list, None when the call returned no list
    written             \* the files written so far, by path

vars == <<_taz_table, instances, boardings_by_tod, op, args, retval, raised,
         retval_obj, written>>

\* Python's None.
None == "None"

\* ------------------------------------------------------------------------
\* Bounds of the model.
\* ------------------------------------------------------------------------

\* The rows of the four period tables of one call, all tables together.
MaxTotalRows == 3

\* The tazManager objects constructed in one run.
MaxInstances == 2

\* The features of a geo-dataframe.
MaxFeatures == 2

\* The rows of a frame exported to CSV.
MaxExportRows == 2

\* The rows of the four period tables of a call that is repeated with the
\* tables assigned to other periods, all tables together.
MaxPermutedRows == 2

\* ------------------------------------------------------------------------
\* Helpers over sequences and sets.
\* ------------------------------------------------------------------------

Range(s) == { s[i] : i \in DOMAIN s }

SeqsUpTo(S, n) == UNION { [1..k -> S] : k \in 0..n }

RECURSIVE Concat(_)
\* The concatenation of a sequence of sequences.
Concat(ss) == IF ss = <<>> THEN <<>> ELSE Head(ss) \o Concat(Tail(ss))

\* ------------------------------------------------------------------------
\* Name resolution.  A name read in a function body is looked up among the
\* function's locals and then among the names bound at module level (the
\* imports of lines 6-11, the assignments, defs and the class); a name found
\* in neither raises NameError.
\* ------------------------------------------------------------------------

module_globals ==
    { "csv", "np", "pd", "gp", "DBF", "pydash",
      "_version", "get_version",
      "_all_time_periods", "_auto_modes", "_truck_modes", "_nm_modes",
      "_transit_modes", "_all_modes",
      "open_trip_tables", "load_trip_tables", "tazManager",
      "_mode_to_metamode_mapping_table", "mode_to_metamode",
      "calculate_total_daily_boardings", "import_transit_assignment",
      "export_df_to_csv", "export_gdf_to_geojson", "export_gdf_to_shapefile",
      "bbox_of_gdf", "center_of_bbox" }

NameDefined(name, locals) == name \in locals \cup module_globals

\* What a call gives back: a value, or the exception that left it.
Return(v) == [ retval |-> v, raised |-> "" ]
Raise(exc) == [ retval |-> None, raised |-> exc ]

\* ------------------------------------------------------------------------
\* Section 3 of modxlib.py: calculate_total_daily_boardings.
\*
\* A DataFrame is [columns |-> the set of its column names,
\*                 rows    |-> the sequence of its rows],
\* a row being a function from the column names to the cells.  NaN is the
\* cell pandas puts where an outer join finds no partner row; the model
\* writes it as -1, a value no count takes (counts are not negative).
\* ------------------------------------------------------------------------

NaN == -1

\* The nine counters summed by lines 342-350, 371-379 and 400-408.
Counters ==
    << "DirectTransferOff", "DirectTransferOn", "DriveAccessOn", "EgressOff",
       "Off", "On", "WalkAccessOn", "WalkTransferOff", "WalkTransferOn" >>

CounterSet == Range(Counters)

KeyColumns == << "ROUTE", "STOP" >>

BoardingColumns == Range(KeyColumns) \cup CounterSet

\* The key of a row: its cells under the `on` columns, in their order.
KeyOf(row, on) == [ i \in DOMAIN on |-> row[on[i]] ]

\* Lexicographic order on keys (tuples of integers of one length).
KeyLess(a, b) ==
    \E i \in DOMAIN a :
        /\ a[i] < b[i]
        /\ \A j \in 1..(i - 1) : a[j] = b[j]

RECURSIVE SortKeys(_)
\* The keys of a set in lexicographic order.
SortKeys(K) ==
    IF K = {} THEN <<>>
    ELSE LET least == CHOOSE k \in K : \A other \in K \ {k} : KeyLess(k, other)
         IN  <<least>> \o SortKeys(K \ {least})

\* The rows of df with the given key, in df's order.
RowsWithKey(df, on, k) == SelectSeq(df.rows, LAMBDA row : KeyOf(row, on) = k)

\* The name a non-key column of one side gets in the join: suffixed when the
\* other side has a column of the same name.
JoinedName(c, otherColumns, suffix) ==
    IF c \in otherColumns THEN c \o suffix ELSE c

RECURSIVE SideCells(_, _, _, _)
\* The cells one side gives a row of the join: for each of its non-key
\* columns `cols`, the joined name mapped to the cell of `row`, a sequence
\* of one row, or to NaN when `row` is empty (the row has no partner).
SideCells(cols, otherColumns, suffix, row) ==
    IF cols = {} THEN <<>>
    ELSE LET c == CHOOSE x \in cols : TRUE
         IN  (JoinedName(c, otherColumns, suffix)
                 :> (IF row = <<>> THEN NaN ELSE row[1][c]))
             @@ SideCells(cols \ {c}, otherColumns, suffix, row)

\* One row of the join from a left row and a right row, each given as a
\* sequence of one row; the empty sequence stands for the missing partner of
\* an unmatched row.
JoinRow(left, right, on, suffixes, k, l, r) ==
    LET onSet == Range(on)
        lcols == left.columns \ onSet
        rcols == right.columns \ onSet
    IN  [ n \in onSet |-> k[CHOOSE i \in DOMAIN on : on[i] = n] ]
            @@ SideCells(lcols, rcols, suffixes[1], l)
            @@ SideCells(rcols, lcols, suffixes[2], r)

\* The rows of a join that gives each left row of key k the first right row
\* of that key only, as a lookup would: the faulty variant.
JoinKey_first_partner(left, right, on, suffixes, k) ==
    LET ls == RowsWithKey(left, on, k)
        rs == RowsWithKey(right, on, k)
    IN  IF rs = <<>>
        THEN [ i \in DOMAIN ls |-> JoinRow(left, right, on, suffixes, k, <<ls[i]>>, <<>>) ]
        ELSE IF ls = <<>>
        THEN [ j \in DOMAIN rs |-> JoinRow(left, right, on, suffixes, k, <<>>, <<rs[j]>>) ]
        ELSE [ i \in DOMAIN ls |->
                 JoinRow(left, right, on, suffixes, k, <<ls[i]>>, <<rs[1]>>) ]

\* The rows of the outer join that carry key k: every pairing of a left row
\* with a right row of that key, or the unmatched rows of the one side.
JoinKey(left, right, on, suffixes, k) ==
    LET ls == RowsWithKey(left, on, k)
        rs == RowsWithKey(right, on, k)
    IN  IF rs = <<>>
        THEN [ i \in DOMAIN ls |-> JoinRow(left, right, on, suffixes, k, <<ls[i]>>, <<>>) ]
        ELSE IF ls = <<>>
        THEN [ j \in DOMAIN rs |-> JoinRow(left, right, on, suffixes, k, <<>>, <<rs[j]>>) ]
        ELSE Concat([ i \in DOMAIN ls |->
                 [ j \in DOMAIN rs |->
                     JoinRow(left, right, on, suffixes, k, <<ls[i]>>, <<rs[j]>>) ] ])

\* The keys an inner join keeps: those found on both sides.  (The join of
\* the code is the outer one; this is the faulty variant.)
merge_keys_inner(left, right, on) ==
    { KeyOf(left.rows[i], on) : i \in DOMAIN left.rows }
        \cap { KeyOf(right.rows[i], on) : i \in DOMAIN right.rows }

\* how='outer': the union of the keys of both frames.
merge_keys(left, right, on) ==
    { KeyOf(left.rows[i], on) : i \in DOMAIN left.rows }
        \cup { KeyOf(right.rows[i], on) : i \in DOMAIN right.rows }

\* pd.merge(left, right, on=on, how='outer', suffixes=suffixes): the union
\* of the keys of both frames, sorted lexicographically.
merge(left, right, on, suffixes) ==
    LET keys == SortKeys(merge_keys(left, right, on))
        onSet == Range(on)
        lcols == left.columns \ onSet
        rcols == right.columns \ onSet
    IN  [ columns |-> onSet
                        \cup { JoinedName(c, rcols, suffixes[1]) : c \in lcols }
                        \cup { JoinedName(c, lcols, suffixes[2]) : c \in rcols },
          rows |-> Concat([ i \in DOMAIN keys |->
                              JoinKey(left, right, on, suffixes, keys[i]) ]) ]

\* df.fillna without effect: the faulty variant that leaves the NaN cells.
fillna_skipped(df, value) == df

\* df.fillna(value): every NaN cell replaced by value.
fillna(df, value) ==
    [ df EXCEPT !.rows =
        [ i \in DOMAIN df.rows |->
            [ c \in df.columns |->
                IF df.rows[i][c] = NaN THEN value ELSE df.rows[i][c] ] ] ]

\* pandas' + on two cells: NaN when either is NaN.
CellAdd(a, b) == IF a = NaN \/ b = NaN THEN NaN ELSE a + b

\* df[c] = df[c + s1] + df[c + s2] for each of the nine counters c.
SumCounters(df, s1, s2) ==
    [ columns |-> df.columns \cup CounterSet,
      rows |-> [ i \in DOMAIN df.rows |->
                   [ c \in df.columns \cup CounterSet |->
                       IF c \in CounterSet
                       THEN CellAdd(df.rows[i][c \o s1], df.rows[i][c \o s2])
                       ELSE df.rows[i][c] ] ] ]

\* The cols_to_drop lists: both suffixed copies of each counter.
ColsToDrop(s1, s2) ==
    { Counters[i] \o s1 : i \in DOMAIN Counters }
        \cup { Counters[i] \o s2 : i \in DOMAIN Counters }

\* df.drop(columns=cols)
drop(df, cols) ==
    [ columns |-> df.columns \ cols,
      rows |-> [ i \in DOMAIN df.rows |->
                   [ c \in df.columns \ cols |-> df.rows[i][c] ] ] ]

\* One join-and-sum stage (steps 1, 2 and 3 of the function are the same
\* four statements with different operands and suffixes).
JoinAndSum(left, right, s1, s2) ==
    drop(SumCounters(fillna(merge(left, right, KeyColumns, <<s1, s2>>), 0), s1, s2),
         ColsToDrop(s1, s2))

\* The 'daily' frame computed with the MD table joined where the PM table
\* belongs: the faulty variant.
daily_df_md_for_pm(b) ==
    LET j1 == JoinAndSum(b["AM"], b["MD"], "_am", "_md")
        j2 == JoinAndSum(b["MD"], b["NT"], "_pm", "_nt")
    IN  JoinAndSum(j1, j2, "_j1", "_j2")

\* The 'daily' frame the function computes.
daily_df(b) ==
    LET j1 == JoinAndSum(b["AM"], b["MD"], "_am", "_md")
        j2 == JoinAndSum(b["PM"], b["NT"], "_pm", "_nt")
    IN  JoinAndSum(j1, j2, "_j1", "_j2")

\* A new dict holding the one key: the faulty variant of the assignment
\* below, which loses the entries the dict had.
DictSet_fresh(d, k, v) == [ x \in {k} |-> v ]

\* boardings_by_tod['daily'] = daily_df: the dict with the key set or added.
DictSet(d, k, v) ==
    [ x \in DOMAIN d \cup {k} |-> IF x = k THEN v ELSE d[x] ]

\* ------------------------------------------------------------------------
\* The period tables the aggregation is called with.
\* ------------------------------------------------------------------------

Periods == << "AM", "MD", "PM", "NT" >>

\* (ROUTE, STOP) pairs: two stops of one route and one stop of another.
Keys == { <<1, 10>>, <<1, 20>>, <<2, 10>> }

\* Counter values of a row: all zero, or 1, 2, ..., 9 in the order of
\* Counters, so that no two counters of a row agree.
Scales == { 0, 1 }

CounterPos(c) == CHOOSE i \in DOMAIN Counters : Counters[i] = c

BoardingRow(k, scale) ==
    [ c \in BoardingColumns |->
        IF c = "ROUTE" THEN k[1]
        ELSE IF c = "STOP" THEN k[2]
        ELSE scale * CounterPos(c) ]

RowPool == { BoardingRow(k, s) : k \in Keys, s \in Scales }

PeriodTable(rows) == [ columns |-> BoardingColumns, rows |-> rows ]

\* ------------------------------------------------------------------------
\* Section 3 of modxlib.py: import_transit_assignment.
\*
\* A frame whose (ROUTE, STOP) cells are its index carries the field
\* `index`, the sequence of the index names; its rows keep those cells.
\* ------------------------------------------------------------------------

\* df.set_index(keys): the key columns become the index.
set_index(df, keys) ==
    [ columns |-> df.columns \ Range(keys), index |-> keys, rows |-> df.rows ]

\* df.reset_index(): the index levels become ordinary columns again.
reset_index(df) ==
    [ columns |-> df.columns \cup Range(df.index), rows |-> df.rows ]

\* The cell of column c in the row of df indexed by k; NaN when df has no
\* such row or no such column.
CellAt(df, k, c) ==
    LET rs == RowsWithKey(df, df.index, k)
    IN  IF rs = <<>> \/ c \notin df.columns THEN NaN ELSE rs[1][c]

\* a.add(b, fill_value=fill_value) of two frames indexed alike, no index
\* entry repeated: the rows of both, aligned on the index; a cell missing on
\* one side counts as fill_value, a cell missing on both stays NaN.
df_add(a, b, fill_value) ==
    LET keys == SortKeys(merge_keys(a, b, a.index))
        cols == a.columns \cup b.columns
    IN  [ columns |-> cols,
          index |-> a.index,
          rows |-> [ i \in DOMAIN keys |->
                       [ n \in Range(a.index) \cup cols |->
                           IF n \in Range(a.index)
                           THEN keys[i][CHOOSE j \in DOMAIN a.index : a.index[j] = n]
                           ELSE LET x == CellAt(a, keys[i], n)
                                    y == CellAt(b, keys[i], n)
                                IN  IF x = NaN /\ y = NaN THEN NaN
                                    ELSE (IF x = NaN THEN fill_value ELSE x)
                                           + (IF y = NaN THEN fill_value ELSE y) ] ] ]

RECURSIVE reduce_add(_, _)
\* reduce(lambda a, b: a.add(b, fill_value=0), tablist) once the first
\* table is taken as the start value: the tables added up from the left.
reduce_add(acc, tablist) ==
    IF tablist = <<>> THEN acc
    ELSE reduce_add(df_add(acc, Head(tablist), 0), Tail(tablist))

\* The scenario directories on disk: under scenario + 'out/' + tod + '/',
\* the CSV files glob finds, each as the frame read_csv makes of it.  In
\* "base/" AM has two files that share a pair; in "void/" NT has no file.
ScenarioFiles ==
    ( "base/out/AM/" :>
          << PeriodTable(<< BoardingRow(<<1, 10>>, 1), BoardingRow(<<1, 20>>, 1) >>),
             PeriodTable(<< BoardingRow(<<1, 10>>, 1), BoardingRow(<<2, 10>>, 1) >>) >> )
    @@ ( "base/out/MD/" :> << PeriodTable(<< BoardingRow(<<1, 10>>, 1) >>) >> )
    @@ ( "base/out/PM/" :> << PeriodTable(<< BoardingRow(<<2, 10>>, 0) >>) >> )
    @@ ( "base/out/NT/" :> << PeriodTable(<< >>) >> )
    @@ ( "void/out/AM/" :> << PeriodTable(<< BoardingRow(<<1, 10>>, 1) >>) >> )
    @@ ( "void/out/MD/" :> << PeriodTable(<< BoardingRow(<<1, 10>>, 1) >>) >> )
    @@ ( "void/out/PM/" :> << PeriodTable(<< BoardingRow(<<1, 20>>, 1) >>) >> )
    @@ ( "void/out/NT/" :> << >> )

\* The scenario arguments: the two directories, and one that is not there.
Scenarios == { "base/", "void/", "nowhere/" }

\* glob.glob(os.path.join(base, x, '*.csv')): the files of the directory,
\* none when there is no such directory.
glob_csv(base, x) ==
    IF base \o x \in DOMAIN ScenarioFiles THEN ScenarioFiles[base \o x] ELSE << >>

\* Lines 459-467 for one period: the files read and indexed, then summed.
\* reduce without a start value raises TypeError on an empty list.
TODsum(base, tod) ==
    LET fq_csv_fns == glob_csv(base, tod \o "/")
        tablist == [ i \in DOMAIN fq_csv_fns |-> set_index(fq_csv_fns[i], KeyColumns) ]
    IN  IF tablist = <<>> THEN Raise("TypeError")
        ELSE Return(reduce_add(Head(tablist), Tail(tablist)))

\* calculate_total_daily_boardings on frames indexed by (ROUTE, STOP):
\* pd.merge takes the names of `on` from the index levels as it does from
\* columns, and keeps them as the index of what it returns.
daily_of_indexed(TODsums) ==
    set_index(daily_df([ tod \in DOMAIN TODsums |-> reset_index(TODsums[tod]) ]),
              KeyColumns)

\* import_transit_assignment(scenario), lines 448-481.  The first statement
\* of the loop, line 461, reads the names glob and os, and line 467 reads
\* reduce; the module binds none of them (lines 6-11).
import_transit_assignment(scenario) ==
    LET locals == { "scenario", "base", "tods", "TODsums", "tod", "x",
                    "fq_csv_fns", "tablist", "csv_file", "k" }
        base == scenario \o "out/"
        sums == [ tod \in Range(Periods) |-> TODsum(base, tod) ]
    IN  IF ~ NameDefined("glob", locals) \/ ~ NameDefined("os", locals)
        THEN Raise("NameError")
        ELSE IF ~ NameDefined("reduce", locals)
        THEN Raise("NameError")
        ELSE IF \E tod \in Range(Periods) : sums[tod].raised # ""
        THEN Raise("TypeError")
        ELSE LET TODsums == [ tod \in Range(Periods) |-> sums[tod].retval ]
                 with_daily == DictSet(TODsums, "daily", daily_of_indexed(TODsums))
             IN  Return([ k \in DOMAIN with_daily |-> reset_index(with_daily[k]) ])

\* ------------------------------------------------------------------------
\* The calls of Section 3 a run is set up for.
\* ------------------------------------------------------------------------

InitBoardings ==
    /\ \/ /\ \E am \in SeqsUpTo(RowPool, MaxTotalRows) :
             \E md \in SeqsUpTo(RowPool, MaxTotalRows - Len(am)) :
             \E pm \in SeqsUpTo(RowPool, MaxTotalRows - Len(am) - Len(md)) :
             \E nt \in SeqsUpTo(RowPool, MaxTotalRows - Len(am) - Len(md) - Len(pm)) :
                boardings_by_tod =
                    [ p \in Range(Periods) |->
                        PeriodTable(CASE p = "AM" -> am [] p = "MD" -> md
                                      [] p = "PM" -> pm [] OTHER -> nt) ]
          /\ args = << "calculate_total_daily_boardings" >>
       \/ /\ boardings_by_tod = None
          /\ \E scenario \in Scenarios :
                args = << "import_transit_assignment", scenario >>
    /\ _taz_table = <<>>
    /\ instances = <<>>
    /\ op = None
    /\ retval = None
    /\ raised = ""
    /\ written = <<>>
    /\ retval_obj = None

\* calculate_total_daily_boardings(boardings_by_tod): the dict gains the key
\* 'daily' and is returned.  The model follows one call on each dict of
\* period tables.
calculate_total_daily_boardings ==
    /\ op = None
    /\ args[1] = "calculate_total_daily_boardings"
    /\ boardings_by_tod' = DictSet(boardings_by_tod, "daily", daily_df(boardings_by_tod))
    /\ op' = "calculate_total_daily_boardings"
    /\ retval' = boardings_by_tod'
    /\ raised' = ""
    /\ UNCHANGED <<args, _taz_table, instances, written, retval_obj>>

\* The call of import_transit_assignment the run was set up for.
import_transit_assignment_call ==
    /\ op = None
    /\ args[1] = "import_transit_assignment"
    /\ LET out == import_transit_assignment(args[2])
       IN  /\ retval' = out.retval
           /\ raised' = out.raised
    /\ op' = "import_transit_assignment"
    /\ UNCHANGED <<args, boardings_by_tod, _taz_table, instances, written, retval_obj>>

NextBoardings ==
    \/ calculate_total_daily_boardings
    \/ import_transit_assignment_call

SpecBoardings == InitBoardings /\ [][NextBoardings]_vars

\* ------------------------------------------------------------------------
\* The aggregation called a second time, on the same four tables assigned
\* to other periods.
\* ------------------------------------------------------------------------

\* The ways of assigning the four tables to the four period keys.
PeriodPermutations ==
    { pi \in [ Range(Periods) -> Range(Periods) ] :
        \A p, q \in Range(Periods) : pi[p] = pi[q] => p = q }

\* The dict in which period p holds the table b holds under pi[p].
Permuted(b, pi) == [ p \in Range(Periods) |-> b[pi[p]] ]

InitPermute ==
    /\ \E am \in SeqsUpTo(RowPool, MaxPermutedRows) :
       \E md \in SeqsUpTo(RowPool, MaxPermutedRows - Len(am)) :
       \E pm \in SeqsUpTo(RowPool, MaxPermutedRows - Len(am) - Len(md)) :
       \E nt \in SeqsUpTo(RowPool, MaxPermutedRows - Len(am) - Len(md) - Len(pm)) :
          boardings_by_tod =
              [ p \in Range(Periods) |->
                  PeriodTable(CASE p = "AM" -> am [] p = "MD" -> md
                                [] p = "PM" -> pm [] OTHER -> nt) ]
    /\ args = << "calculate_total_daily_boardings" >>
    /\ _taz_table = <<>>
    /\ instances = <<>>
    /\ op = None
    /\ retval = None
    /\ raised = ""
    /\ written = <<>>
    /\ retval_obj = None

\* A second call of calculate_total_daily_boardings, on a new dict that
\* holds the tables of the first call under permuted period keys; the dict
\* of the first call, 'daily' included, stays in boardings_by_tod.
calculate_total_daily_boardings_permuted ==
    \E pi \in PeriodPermutations :
        LET second == Permuted(boardings_by_tod, pi)
        IN  /\ op = "calculate_total_daily_boardings"
            /\ Len(args) = 1
            /\ retval' = DictSet(second, "daily", daily_df(second))
            /\ op' = "calculate_total_daily_boardings"
            /\ args' = << "calculate_total_daily_boardings", pi >>
            /\ raised' = ""
            /\ UNCHANGED <<boardings_by_tod, _taz_table, instances, written, retval_obj>>

NextPermute ==
    \/ calculate_total_daily_boardings
    \/ calculate_total_daily_boardings_permuted

SpecPermute == InitPermute /\ [][NextPermute]_vars

\* ------------------------------------------------------------------------
\* Properties of calculate_total_daily_boardings.
\* ------------------------------------------------------------------------

Called(f) == op = f /\ raised = ""

\* The (ROUTE, STOP) pairs of a frame.
FrameKeys(df) == { KeyOf(df.rows[i], KeyColumns) : i \in DOMAIN df.rows }

\* The pairs found in at least one of the four period tables.
InputKeys(b) == UNION { FrameKeys(b[Periods[i]]) : i \in DOMAIN Periods }

RECURSIVE SumOver(_, _, _)
\* The sum of counter c over the rows of a sequence that carry key k; zero
\* when there is none.
SumOver(rows, k, c) ==
    IF rows = <<>> THEN 0
    ELSE (IF KeyOf(Head(rows), KeyColumns) = k THEN Head(rows)[c] ELSE 0)
             + SumOver(Tail(rows), k, c)

\* The sum of counter c of pair k over the four period tables.
TrueSum(b, k, c) ==
    SumOver(b["AM"].rows, k, c) + SumOver(b["MD"].rows, k, c)
        + SumOver(b["PM"].rows, k, c) + SumOver(b["NT"].rows, k, c)

\* No period table holds two rows of one (ROUTE, STOP) pair.
UniqueKeys(b) ==
    \A i \in DOMAIN Periods :
        \A m, n \in DOMAIN b[Periods[i]].rows :
            KeyOf(b[Periods[i]].rows[m], KeyColumns)
                = KeyOf(b[Periods[i]].rows[n], KeyColumns) => m = n

\* Pair k has exactly one row in 'daily', holding the true sums.
OnceWithTrueSums(b, k) ==
    LET rows == RowsWithKey(b["daily"], KeyColumns, k)
    IN  /\ Len(rows) = 1
        /\ \A c \in CounterSet : rows[1][c] = TrueSum(b, k, c)

\* C1 as stated: for any four period tables, every (ROUTE, STOP) pair of an
\* input has exactly one row in 'daily', and each of its nine counters is the
\* sum of that counter over the periods holding the pair.
C1_AnyTables_OnceWithTrueSums ==
    Called("calculate_total_daily_boardings") =>
        \A k \in InputKeys(boardings_by_tod) : OnceWithTrueSums(boardings_by_tod, k)

\* C1 as amended: for any four period tables in each of which every
\* (ROUTE, STOP) pair occurs at most once, every pair of an input has exactly
\* one row in 'daily' and each of its nine counters is the sum of that
\* counter over the periods holding the pair, a period without it giving 0.
C1_UniqueKeys_OnceWithTrueSums ==
    ( Called("calculate_total_daily_boardings") /\ UniqueKeys(boardings_by_tod) ) =>
        \A k \in InputKeys(boardings_by_tod) : OnceWithTrueSums(boardings_by_tod, k)

\* C1's case: a pair held by AM and PM with non-zero counts and missing from
\* MD, so that the sum crosses both join stages and meets a filled-in zero.
C1_Witness ==
    /\ Called("calculate_total_daily_boardings")
    /\ UniqueKeys(boardings_by_tod)
    /\ \E k \in FrameKeys(boardings_by_tod["AM"]) \cap FrameKeys(boardings_by_tod["PM"]) :
          /\ k \notin FrameKeys(boardings_by_tod["MD"])
          /\ SumOver(boardings_by_tod["AM"].rows, k, "On") > 0
          /\ SumOver(boardings_by_tod["PM"].rows, k, "On") > 0
          /\ OnceWithTrueSums(boardings_by_tod, k)

\* C2: the (ROUTE, STOP) pairs of 'daily' are exactly the union of the pairs
\* of the four period tables, also when some period table has no rows.
C2_DailyKeysAreUnion ==
    Called("calculate_total_daily_boardings") =>
        FrameKeys(boardings_by_tod["daily"]) = InputKeys(boardings_by_tod)

\* C2's case: an empty PM table, a pair held by AM and MD and a second pair
\* held by MD alone.
C2_Witness ==
    /\ Called("calculate_total_daily_boardings")
    /\ boardings_by_tod["PM"].rows = <<>>
    /\ \E k1, k2 \in Keys :
          /\ k1 # k2
          /\ FrameKeys(boardings_by_tod["AM"]) = {k1}
          /\ FrameKeys(boardings_by_tod["MD"]) = {k1, k2}
          /\ FrameKeys(boardings_by_tod["daily"]) = {k1, k2}

\* ------------------------------------------------------------------------
\* Section 2 of modxlib.py: class tazManager.
\*
\* Strings the code searches (the subregion field) are sequences of
\* characters; a file path is the sequence of its pieces, the extension
\* being one piece.  A numeric cell of a .dbf file is written in tenths
\* (10 is 1.0, 25 is 2.5): int() cuts the fraction off.
\* ------------------------------------------------------------------------

ICC == << "I", "C", "C" >>
TRIC == << "T", "R", "I", "C" >>
SWAP == << "S", "W", "A", "P" >>
NSTF == << "N", "S", "T", "F" >>
ICC_TRIC == ICC \o << "/" >> \o TRIC
SWAP_TRIC == SWAP \o << "/" >> \o TRIC

\* str.find(sub): the lowest 0-based index at which sub occurs in s, or -1.
find(s, sub) ==
    LET starts == { i \in 0..(Len(s) - Len(sub)) :
                      \A j \in 1..Len(sub) : s[i + j] = sub[j] }
    IN  IF starts = {} THEN -1
        ELSE CHOOSE i \in starts : \A k \in starts : i <= k

\* int(x) of a numeric cell given in tenths.
int(x) == x \div 10

\* my_shapefile_fn.replace('.shp', '.dbf')
replace(fn, old, new) == [ i \in DOMAIN fn |-> IF fn[i] = old THEN new ELSE fn[i] ]

\* The ten attributes __init__ copies out of a record, in its order.
RequiredFields ==
    << "id", "taz", "type", "town", "state", "town_state", "mpo",
       "in_brmpo", "subregion", "sector" >>

DbfRecord(id, taz, type, town, state, mpo, in_brmpo, subregion, sector) ==
    [ id |-> id, taz |-> taz, type |-> type, town |-> town, state |-> state,
      town_state |-> <<town, state>>, mpo |-> mpo, in_brmpo |-> in_brmpo,
      subregion |-> subregion, sector |-> sector ]

\* A record of a table whose schema has no field `name`.
WithoutField(record, name) == [ f \in DOMAIN record \ {name} |-> record[f] ]

\* The .dbf files on disk: two vintages of the TAZ table that reuse ids, a
\* table without records, a table whose schema has no `sector` field, a
\* table without `sector` and without records, and nothing under the
\* default path.
DbfFiles ==
    ( << "tdm19", ".dbf" >> :>
        << DbfRecord(10, 1010, "I", "Boston", "MA", "BRMPO", 10, ICC, "Central"),
           DbfRecord(20, 1020, "I", "Milton", "MA", "BRMPO", 10, ICC_TRIC, "South"),
           DbfRecord(30, 1030, "I", "Salem", "MA", "BRMPO", 10, NSTF, "Northeast"),
           DbfRecord(40, 1040, "E", "Salem", "NH", "RPC", 0, <<>>, "") >> )
    @@ ( << "tdm23", ".dbf" >> :>
        << DbfRecord(10, 2010, "I", "Lowell", "MA", "NMCOG", 0, <<>>, "Northwest"),
           DbfRecord(25, 2020, "I", "Milton", "MA", "BRMPO", 10, SWAP_TRIC, "Southwest") >> )
    @@ ( << "empty", ".dbf" >> :> << >> )
    @@ ( << "nosector", ".dbf" >> :>
        << WithoutField(DbfRecord(50, 3050, "I", "Quincy", "MA", "BRMPO", 10, ICC, ""),
                        "sector"),
           WithoutField(DbfRecord(60, 3060, "I", "Milton", "MA", "BRMPO", 10, ICC_TRIC, ""),
                        "sector") >> )
    @@ ( << "bare", ".dbf" >> :> << >> )

\* The field names in the header of each .dbf file (dbf_table.field_names).
\* __init__ never reads them: it meets a field only through the records.
DbfFieldNames ==
    [ path \in DOMAIN DbfFiles |->
        IF path \in { << "nosector", ".dbf" >>, << "bare", ".dbf" >> }
        THEN Range(RequiredFields) \ { "sector" }
        ELSE Range(RequiredFields) ]

_default_fq_shapefile_fn ==
    << "G:/Data_Resources/modx/canonical_TAZ_shapefile/",
       "candidate_CTPS_TAZ_STATEWIDE_2019", ".shp" >>

\* my_shapefile_fn=None, written as the path of no pieces.
NoShapefile == << >>

\* The arguments the constructor is called with.
ShapefileArgs ==
    { << "tdm19", ".shp" >>, << "tdm23", ".shp" >>, << "empty", ".shp" >>,
      << "nosector", ".shp" >>, << "bare", ".shp" >>, NoShapefile }

\* The dict `new` built from one record (lines 159-169).
NewRecord(record) ==
    [ id |-> int(record["id"]),
      taz |-> int(record["taz"]),
      type |-> record["type"],
      town |-> record["town"],
      state |-> record["state"],
      town_state |-> record["town_state"],
      mpo |-> record["mpo"],
      in_brmpo |-> int(record["in_brmpo"]),
      subregion |-> record["subregion"],
      sector |-> record["sector"] ]

RECURSIVE LoadRecords(_, _)
\* The loop of lines 158-171 over the records still to read: each record is
\* converted and appended to the table; a record lacking one of the
\* attributes stops the loop with KeyError, the records before it staying.
LoadRecords(table, records) ==
    IF records = <<>> THEN [ table |-> table, raised |-> "" ]
    ELSE IF ~ (Range(RequiredFields) \subseteq DOMAIN Head(records))
    THEN [ table |-> table, raised |-> "KeyError" ]
    ELSE LoadRecords(Append(table, NewRecord(Head(records))), Tail(records))

\* The records an instance constructed from `fn` reads from its own file.
OwnRecords(fn) ==
    LET path == replace(IF fn = NoShapefile THEN _default_fq_shapefile_fn ELSE fn,
                        ".shp", ".dbf")
    IN  IF path \in DOMAIN DbfFiles
        THEN [ i \in DOMAIN DbfFiles[path] |-> NewRecord(DbfFiles[path][i]) ]
        ELSE << >>

\* tazManager(my_shapefile_fn).  self._taz_table is never assigned on the
\* object, so self._taz_table.append reaches the list of the class
\* attribute of line 148, the one list all objects share.
tazManager_init ==
    \E my_shapefile_fn \in ShapefileArgs :
        LET fn == IF my_shapefile_fn = NoShapefile
                  THEN _default_fq_shapefile_fn ELSE my_shapefile_fn
            my_dbffile_fn == replace(fn, ".shp", ".dbf")
        IN  /\ Len(instances) < MaxInstances
            /\ op' = "tazManager"
            /\ args' = << my_shapefile_fn >>
            /\ retval' = None
            /\ retval_obj' = None
            /\ IF my_dbffile_fn \notin DOMAIN DbfFiles
               THEN /\ raised' = "DBFNotFound"
                    /\ UNCHANGED << _taz_table, instances >>
               ELSE LET loaded == LoadRecords(_taz_table, DbfFiles[my_dbffile_fn])
                    IN  /\ _taz_table' = loaded.table
                        /\ raised' = loaded.raised
                        /\ instances' =
                              IF loaded.raised = ""
                              THEN Append(instances, [ shapefile |-> my_shapefile_fn ])
                              ELSE instances
            /\ UNCHANGED << boardings_by_tod, written >>

\* self._taz_table as object number i reads it: the class attribute.
self_taz_table(i) == _taz_table

\* pydash.collections.filter_ that stops at the first match: the faulty
\* variant that returns at most one record.
RECURSIVE filter_first(_, _)
filter_first(collection, predicate) ==
    IF collection = <<>> THEN <<>>
    ELSE IF predicate[Head(collection)] THEN << Head(collection) >>
    ELSE filter_first(Tail(collection), predicate)

RECURSIVE filter_(_, _)
\* pydash.collections.filter_(collection, predicate): the elements the
\* predicate accepts, in the collection's order.  The predicate, a lambda in
\* the code, is the function from the elements to its verdicts.
filter_(collection, predicate) ==
    IF collection = <<>> THEN <<>>
    ELSE (IF predicate[Head(collection)] THEN << Head(collection) >> ELSE <<>>)
             \o filter_(Tail(collection), predicate)

mpo_to_tazes(table, mpo) == filter_(table, [ x \in Range(table) |-> x["mpo"] = mpo ])

brmpo_tazes(table) == filter_(table, [ x \in Range(table) |-> x["in_brmpo"] = 1 ])

brmpo_town_to_tazes(table, mpo_town) ==
    filter_(table, [ x \in Range(table) |-> x["in_brmpo"] = 1 /\ x["town"] = mpo_town ])

sector_to_tazes(table, sector) == filter_(table, [ x \in Range(table) |-> x["sector"] = sector ])

town_to_tazes(table, town) == filter_(table, [ x \in Range(table) |-> x["town"] = town ])

town_state_to_tazes(table, town, state) ==
    filter_(table, [ x \in Range(table) |-> x["state"] = state /\ x["town"] = town ])

state_to_tazes(table, state) == filter_(table, [ x \in Range(table) |-> x["state"] = state ])

\* Lines 198-209, given the value the name `subregion` evaluates to.
subregion_scan(table, subregion, mpo_subregion) ==
    IF subregion = ICC
    THEN filter_(table, [ x \in Range(table) |-> find(x["subregion"], ICC) # -1 ])
    ELSE IF subregion = TRIC
    THEN filter_(table, [ x \in Range(table) |-> find(x["subregion"], TRIC) # -1 ])
    ELSE IF subregion = SWAP
    THEN filter_(table, [ x \in Range(table) |-> find(x["subregion"], SWAP) # -1 ])
    ELSE filter_(table, [ x \in Range(table) |-> x["subregion"] = mpo_subregion ])

\* brmpo_subregion_to_tazes(self, mpo_subregion): the body reads the name
\* `subregion`, which is neither a parameter nor a local (these are self,
\* mpo_subregion and retval) nor bound at module level.
brmpo_subregion_to_tazes(table, mpo_subregion, global_value) ==
    IF ~ NameDefined("subregion", { "self", "mpo_subregion", "retval" })
    THEN Raise("NameError")
    ELSE Return(subregion_scan(table, global_value, mpo_subregion))

\* taz_ids that drops the ids it has already seen: the faulty variant.
RECURSIVE taz_ids_distinct(_)
taz_ids_distinct(taz_record_list) ==
    IF taz_record_list = <<>> THEN <<>>
    ELSE LET front == taz_ids_distinct(SubSeq(taz_record_list, 1, Len(taz_record_list) - 1))
             last == taz_record_list[Len(taz_record_list)]["id"]
         IN  IF last \in Range(front) THEN front ELSE Append(front, last)

RECURSIVE taz_ids(_)
\* taz_ids(self, taz_record_list): the loop of lines 231-235.
taz_ids(taz_record_list) ==
    IF taz_record_list = <<>> THEN <<>>
    ELSE << Head(taz_record_list)["id"] >> \o taz_ids(Tail(taz_record_list))

\* The values the accessors are called with.
MpoArgs == { "BRMPO", "RPC", "NMCOG", "OCPC" }
TownArgs == { "Boston", "Milton", "Salem", "Lowell", "Natick" }
StateArgs == { "MA", "NH", "RI" }
SectorArgs == { "Central", "South", "" }
SubregionArgs == { ICC, TRIC, SWAP, NSTF, ICC_TRIC, <<>> }

\* The filter accessors but brmpo_subregion_to_tazes, each with its
\* arguments, called on one of the objects constructed so far.
FilterCalls ==
    { << "mpo_to_tazes", a >> : a \in MpoArgs }
        \cup { << "brmpo_tazes" >> }
        \cup { << "brmpo_town_to_tazes", a >> : a \in TownArgs }
        \cup { << "sector_to_tazes", a >> : a \in SectorArgs }
        \cup { << "town_to_tazes", a >> : a \in TownArgs }
        \cup { << "town_state_to_tazes", a, b >> : a \in TownArgs, b \in StateArgs }
        \cup { << "state_to_tazes", a >> : a \in StateArgs }

FilterResult(table, call) ==
    CASE call[1] = "mpo_to_tazes" -> mpo_to_tazes(table, call[2])
      [] call[1] = "brmpo_tazes" -> brmpo_tazes(table)
      [] call[1] = "brmpo_town_to_tazes" -> brmpo_town_to_tazes(table, call[2])
      [] call[1] = "sector_to_tazes" -> sector_to_tazes(table, call[2])
      [] call[1] = "town_to_tazes" -> town_to_tazes(table, call[2])
      [] call[1] = "town_state_to_tazes" -> town_state_to_tazes(table, call[2], call[3])
      [] call[1] = "state_to_tazes" -> state_to_tazes(table, call[2])

\* The list object a filter hands back being the collection itself when
\* every element passed: the faulty variant.
filter_result_obj_shared(collection, result) ==
    IF result = collection THEN "_taz_table" ELSE "new"

\* The list object pydash's filter_ hands back: it collects the accepted
\* elements in a list of its own, whatever it accepts.
filter_result_obj(collection, result) == "new"

\* One call of a filter accessor on object number i.
filter_accessor ==
    \E i \in DOMAIN instances, call \in FilterCalls :
        /\ op' = call[1]
        /\ args' = << i >> \o Tail(call)
        /\ retval' = FilterResult(self_taz_table(i), call)
        /\ retval_obj' = filter_result_obj(self_taz_table(i), retval')
        /\ raised' = ""
        /\ UNCHANGED << _taz_table, instances, boardings_by_tod, written >>

\* One call of brmpo_subregion_to_tazes on object number i.
brmpo_subregion_to_tazes_call ==
    \E i \in DOMAIN instances, mpo_subregion \in SubregionArgs :
        LET out == brmpo_subregion_to_tazes(self_taz_table(i), mpo_subregion, None)
        IN  /\ op' = "brmpo_subregion_to_tazes"
            /\ args' = << i, mpo_subregion >>
            /\ retval' = out.retval
            /\ retval_obj' = None
            /\ raised' = out.raised
            /\ UNCHANGED << _taz_table, instances, boardings_by_tod, written >>

\* The record lists handed to taz_ids: the object's whole table, a filter
\* result, and a list in which records repeat.
TazIdsArgs(i) ==
    LET table == self_taz_table(i)
    IN  { table, table \o table, <<>> }
            \cup { FilterResult(table, call) : call \in FilterCalls }

\* One call of taz_ids on object number i.
taz_ids_call ==
    \E i \in DOMAIN instances :
        \E taz_record_list \in TazIdsArgs(i) :
            /\ op' = "taz_ids"
            /\ args' = << i, taz_record_list >>
            /\ retval' = taz_ids(taz_record_list)
            /\ retval_obj' = "new"
            /\ raised' = ""
            /\ UNCHANGED << _taz_table, instances, boardings_by_tod, written >>

\* What a caller may do to a list it was handed: append an element, remove
\* the first element, reverse the list.
ListMutations == { "append", "pop", "reverse" }

\* A record a caller appends to a list.
CallerRecord == NewRecord(DbfRecord(990, 9990, "E", "Nashua", "NH", "NRPC", 0, <<>>, ""))

Reverse(list) == [ i \in DOMAIN list |-> list[Len(list) + 1 - i] ]

\* The list after the mutation, in place.
Mutated(list, mutation) ==
    CASE mutation = "append" -> Append(list, CallerRecord)
      [] mutation = "pop" -> IF list = <<>> THEN list ELSE Tail(list)
      [] mutation = "reverse" -> Reverse(list)

\* The caller changes, in place, the list the last filter accessor returned.
\* The change reaches every name of that list object, so it reaches
\* _taz_table exactly when the returned list is the class attribute's list.
caller_mutates_retval ==
    \E mutation \in ListMutations :
        /\ op \in { call[1] : call \in FilterCalls }
        /\ raised = ""
        /\ retval' = Mutated(retval, mutation)
        /\ _taz_table' = IF retval_obj = "_taz_table" THEN retval' ELSE _taz_table
        /\ op' = "caller_mutates_retval"
        /\ args' = << mutation >>
        /\ raised' = ""
        /\ UNCHANGED << instances, boardings_by_tod, written, retval_obj >>

InitTaz ==
    /\ _taz_table = <<>>
    /\ instances = <<>>
    /\ boardings_by_tod = None
    /\ op = None
    /\ args = <<>>
    /\ retval = None
    /\ raised = ""
    /\ written = <<>>
    /\ retval_obj = None

NextTaz ==
    \/ tazManager_init
    \/ filter_accessor
    \/ brmpo_subregion_to_tazes_call
    \/ taz_ids_call
    \/ caller_mutates_retval

SpecTaz == InitTaz /\ [][NextTaz]_vars

\* ------------------------------------------------------------------------
\* Properties of tazManager.
\* ------------------------------------------------------------------------

FilterOps == { call[1] : call \in FilterCalls }

\* The predicate of each filter accessor, as its description states it;
\* a holds the arguments of the call after the object.
Satisfies(x, f, a) ==
    CASE f = "mpo_to_tazes" -> x.mpo = a[1]
      [] f = "brmpo_tazes" -> x.in_brmpo = 1
      [] f = "brmpo_town_to_tazes" -> x.in_brmpo = 1 /\ x.town = a[1]
      [] f = "sector_to_tazes" -> x.sector = a[1]
      [] f = "town_to_tazes" -> x.town = a[1]
      [] f = "town_state_to_tazes" -> x.town = a[1] /\ x.state = a[2]
      [] f = "state_to_tazes" -> x.state = a[1]

\* C3: whatever the table and the arguments, every record a filter accessor
\* returns is a record of the table that satisfies the accessor's predicate,
\* and every record of the table that satisfies it is returned.
C3_FiltersSoundAndComplete ==
    ( op \in FilterOps /\ raised = "" ) =>
        LET table == self_taz_table(args[1])
        IN  /\ \A j \in DOMAIN retval :
                  /\ retval[j] \in Range(table)
                  /\ Satisfies(retval[j], op, Tail(args))
            /\ \A j \in DOMAIN table :
                  Satisfies(table[j], op, Tail(args)) => table[j] \in Range(retval)

\* C3's case: on the one object constructed, a conjunctive filter that
\* returns one record and rejects the others, one of them for its state
\* alone and one for its town alone.
C3_Witness ==
    /\ Len(instances) = 1
    /\ op = "town_state_to_tazes"
    /\ raised = ""
    /\ args[2] = "Salem" /\ args[3] = "MA"
    /\ Len(retval) = 1
    /\ \E j \in DOMAIN _taz_table :
          _taz_table[j].town = "Salem" /\ _taz_table[j].state = "NH"
    /\ \E j \in DOMAIN _taz_table :
          _taz_table[j].town = "Boston" /\ _taz_table[j].state = "MA"

\* What brmpo_subregion_to_tazes is to return: for a reserved code the
\* records whose subregion field contains it, else those whose field equals it.
SubregionExpected(table, code) ==
    IF code \in { ICC, TRIC, SWAP }
    THEN SelectSeq(table, LAMBDA x : find(x.subregion, code) # -1)
    ELSE SelectSeq(table, LAMBDA x : x.subregion = code)

\* C4: brmpo_subregion_to_tazes(code) returns the records whose subregion
\* field contains code when code is 'ICC', 'TRIC' or 'SWAP', and the records
\* whose subregion field equals code for any other code.
C4_SubregionFilter ==
    op = "brmpo_subregion_to_tazes" =>
        /\ raised = ""
        /\ retval = SubregionExpected(self_taz_table(args[1]), args[2])

\* C5: taz_ids(L) returns a list as long as L whose i-th element is the id
\* of the i-th record of L, repeated records included, and the call leaves
\* the record list of the class as it was.
C5_TazIdsProjectsInOrder ==
    [][ ( op' = "taz_ids" /\ raised' = "" ) =>
            /\ Len(retval') = Len(args'[2])
            /\ \A n \in 1..Len(args'[2]) : retval'[n] = args'[2][n].id
            /\ _taz_table' = _taz_table ]_vars

\* C5's case: a list in which every record occurs twice, projected to ids
\* that occur twice.
C5_Witness ==
    /\ op = "taz_ids"
    /\ raised = ""
    /\ Len(args[2]) >= 4
    /\ \E m, n \in DOMAIN args[2] : m # n /\ args[2][m] = args[2][n]
    /\ \E m, n \in DOMAIN retval : m # n /\ retval[m] = retval[n]
    /\ \E m, n \in DOMAIN retval : retval[m] # retval[n]

\* C6: whatever objects were constructed before or after it, the record list
\* the accessors of an object scan holds exactly the records of the source
\* the object was constructed from, once each, in the order of the source.
C6_InstancesIndependent ==
    \A i \in DOMAIN instances :
        self_taz_table(i) = OwnRecords(instances[i].shapefile)

\* ------------------------------------------------------------------------
\* Section 1 of modxlib.py: trip table management.
\*
\* An open OMX file is [file |-> its path, data |-> its matrices by mode];
\* a matrix is the sequence of its cells.
\* ------------------------------------------------------------------------

_all_time_periods == << "am", "md", "pm", "nt" >>
_auto_modes == << "SOV", "HOV" >>
_truck_modes ==
    << "Heavy_Truck", "Heavy_Truck_HazMat", "Medium_Truck", "Medium_Truck_HazMat",
       "Light_Truck" >>
_nm_modes == << "Walk", "Bike" >>
_transit_modes ==
    << "DAT_Boat", "DET_Boat", "DAT_CR", "DET_CR", "DAT_LB", "DET_LB", "DAT_RT",
       "DET_RT", "WAT" >>
_all_modes == _auto_modes \o _truck_modes \o _nm_modes \o _transit_modes

PosIn(seq, x) == CHOOSE i \in DOMAIN seq : seq[i] = x

\* The cells of the matrix a period's file stores under a mode: no two
\* (period, mode) pairs store the same cells.
Matrix(period, mode, seed) ==
    << 100 * PosIn(_all_time_periods, period) + PosIn(_all_modes, mode), seed >>

Seeds == { 0, 7 }

\* The fixed name of a period's file.
TripTableFile(period) ==
    CASE period = "am" -> "AfterSC_Final_AM_Tables.omx"
      [] period = "md" -> "AfterSC_Final_MD_Tables.omx"
      [] period = "pm" -> "AfterSC_Final_PM_Tables.omx"
      [] period = "nt" -> "AfterSC_Final_NT_Tables.omx"

\* The directories open_trip_tables is called with: one holding the four
\* files and one lacking the PM file.
TripTableDirs == { "tdm19/", "partial/" }

\* The matrices of the OMX files on disk, by path.
OmxFiles ==
    [ path \in { "tdm19/" \o TripTableFile(_all_time_periods[i]) : i \in 1..4 }
                 \cup { "partial/" \o TripTableFile(p) : p \in { "am", "md", "nt" } } |->
        LET period == CHOOSE q \in Range(_all_time_periods) :
                          \E d \in TripTableDirs : path = d \o TripTableFile(q)
        IN  [ mode \in Range(_all_modes) |-> Matrix(period, mode, 0) ] ]

\* omx.open_file(path, 'r')
open_file(path) ==
    IF path \in DOMAIN OmxFiles
    THEN Return([ file |-> path, data |-> OmxFiles[path] ])
    ELSE Raise("FileNotFoundError")

\* The dict display of lines 51-55: the four values are evaluated in the
\* order written, the first failure leaving the function.
open_trip_tables_dict(tt_am, tt_md, tt_pm, tt_nt) ==
    LET am == open_file(tt_am)
        md == open_file(tt_pm)
        pm == open_file(tt_pm)
        nt == open_file(tt_nt)
    IN  IF am.raised # "" THEN am
        ELSE IF md.raised # "" THEN md
        ELSE IF pm.raised # "" THEN pm
        ELSE IF nt.raised # "" THEN nt
        ELSE Return([ period \in Range(_all_time_periods) |->
                        CASE period = "am" -> am.retval
                          [] period = "md" -> md.retval
                          [] period = "pm" -> pm.retval
                          [] period = "nt" -> nt.retval ])

\* open_trip_tables(tt_dir).  The body reads the name `omx`, which no import
\* and no assignment of the module binds.
open_trip_tables(tt_dir) ==
    LET tt_am == tt_dir \o "AfterSC_Final_AM_Tables.omx"
        tt_md == tt_dir \o "AfterSC_Final_MD_Tables.omx"
        tt_pm == tt_dir \o "AfterSC_Final_PM_Tables.omx"
        tt_nt == tt_dir \o "AfterSC_Final_NT_Tables.omx"
    IN  IF ~ NameDefined("omx", { "tt_dir", "tt_am", "tt_md", "tt_pm", "tt_nt", "tt_omxs" })
        THEN Raise("NameError")
        ELSE open_trip_tables_dict(tt_am, tt_md, tt_pm, tt_nt)

\* np.array(temp): a new array holding the cells of the matrix.
np_array(temp) == [ i \in DOMAIN temp |-> temp[i] ]

\* Lines 81-82 reading the AM file whatever the period: the faulty variant.
load_cell_am(tt_omxs, period, mode) == np_array(tt_omxs["am"].data[mode])

\* Lines 81-82: temp = tt_omxs[period][mode]; np.array(temp).
load_cell(tt_omxs, period, mode) == np_array(tt_omxs[period].data[mode])

RECURSIVE load_modes_skip_missing(_, _, _, _)
\* The inner loop passing over a mode the file does not store, as if the
\* failed lookup were caught: the faulty variant.
load_modes_skip_missing(tt_omxs, period, modes, acc) ==
    IF modes = <<>> THEN Return(acc)
    ELSE IF Head(modes) \notin DOMAIN tt_omxs[period].data
    THEN load_modes_skip_missing(tt_omxs, period, Tail(modes), acc)
    ELSE load_modes_skip_missing(tt_omxs, period, Tail(modes),
                    DictSet(acc, Head(modes), load_cell(tt_omxs, period, Head(modes))))

RECURSIVE load_modes(_, _, _, _)
\* The inner loop of lines 80-83 over the modes still to load for one
\* period; acc is retval[period].  A mode the file does not store stops it.
load_modes(tt_omxs, period, modes, acc) ==
    IF modes = <<>> THEN Return(acc)
    ELSE IF Head(modes) \notin DOMAIN tt_omxs[period].data
    THEN Raise("KeyError")
    ELSE load_modes(tt_omxs, period, Tail(modes),
                    DictSet(acc, Head(modes), load_cell(tt_omxs, period, Head(modes))))

RECURSIVE load_periods(_, _, _, _)
\* The outer loop of lines 79-84 over the periods still to load.
load_periods(tt_omxs, periods, modes, acc) ==
    IF periods = <<>> THEN Return(acc)
    ELSE LET one == load_modes(tt_omxs, Head(periods), modes, acc[Head(periods)])
         IN  IF one.raised # "" THEN one
             ELSE load_periods(tt_omxs, Tail(periods), modes,
                               [ acc EXCEPT ![Head(periods)] = one.retval ])

\* An empty dict.
EmptyDict == [ x \in {} |-> 0 ]

\* load_trip_tables(tt_omxs, modes=None); modes_arg is the empty sequence
\* when modes is omitted and the sequence of the one list given otherwise.
load_trip_tables(tt_omxs, modes_arg) ==
    LET modes == IF modes_arg = <<>> THEN _all_modes ELSE modes_arg[1]
    IN  load_periods(tt_omxs, _all_time_periods, modes,
                     [ period \in { "am", "md", "pm", "nt" } |-> EmptyDict ])

\* The handles load_trip_tables is called with: the four files complete, or
\* one mode missing from the file of one period.
TripHandles ==
    { [ period \in Range(_all_time_periods) |->
          [ file |-> TripTableFile(period),
            data |-> [ mode \in IF period = gap[1]
                                THEN Range(_all_modes) \ { gap[2] }
                                ELSE Range(_all_modes) |->
                         Matrix(period, mode, seed) ] ] ] :
        gap \in { << "", "" >> } \cup ( Range(_all_time_periods) \X Range(_all_modes) ),
        seed \in Seeds }

\* The mode lists load_trip_tables is called with; none when omitted.
ModeArgs ==
    { << >>,
      << << >> >>,
      << << "SOV" >> >>,
      << << "SOV", "HOV" >> >>,
      << << "WAT", "Bike", "SOV" >> >>,
      << << "Walk", "Walk" >> >>,
      << _transit_modes >> }

InitTrip ==
    /\ \/ \E tt_dir \in TripTableDirs : args = << "open_trip_tables", tt_dir >>
       \/ \E tt_omxs \in TripHandles, modes_arg \in ModeArgs :
              args = << "load_trip_tables", tt_omxs, modes_arg >>
    /\ _taz_table = <<>>
    /\ instances = <<>>
    /\ boardings_by_tod = None
    /\ op = None
    /\ retval = None
    /\ raised = ""
    /\ written = <<>>
    /\ retval_obj = None

\* The call of open_trip_tables the run was set up for.
open_trip_tables_call ==
    /\ op = None
    /\ args[1] = "open_trip_tables"
    /\ LET out == open_trip_tables(args[2])
       IN  /\ retval' = out.retval
           /\ raised' = out.raised
    /\ op' = "open_trip_tables"
    /\ UNCHANGED << args, _taz_table, instances, boardings_by_tod, written, retval_obj >>

\* The call of load_trip_tables the run was set up for.
load_trip_tables_call ==
    /\ op = None
    /\ args[1] = "load_trip_tables"
    /\ LET out == load_trip_tables(args[2], args[3])
       IN  /\ retval' = out.retval
           /\ raised' = out.raised
    /\ op' = "load_trip_tables"
    /\ UNCHANGED << args, _taz_table, instances, boardings_by_tod, written, retval_obj >>

NextTrip ==
    \/ open_trip_tables_call
    \/ load_trip_tables_call

SpecTrip == InitTrip /\ [][NextTrip]_vars

\* ------------------------------------------------------------------------
\* Properties of the trip table functions.
\* ------------------------------------------------------------------------

\* C8: open_trip_tables(tt_dir), the four files being there, returns a
\* mapping with exactly the keys 'am', 'md', 'pm', 'nt', the handle under
\* each key being the open file of that period's fixed name, so that no two
\* keys refer to one file.
C8_HandlePerPeriod ==
    ( op = "open_trip_tables"
        /\ \A p \in Range(_all_time_periods) :
              args[2] \o TripTableFile(p) \in DOMAIN OmxFiles ) =>
        /\ raised = ""
        /\ DOMAIN retval = { "am", "md", "pm", "nt" }
        /\ \A p \in DOMAIN retval : retval[p].file = args[2] \o TripTableFile(p)
        /\ \A p, q \in DOMAIN retval : retval[p].file = retval[q].file => p = q

\* The modes a call asks for: the catalogue when the list is omitted.
RequestedModes(modes_arg) ==
    IF modes_arg = <<>> THEN Range(_all_modes) ELSE Range(modes_arg[1])

\* Every requested mode is stored in the file of every period.
AllStored(tt_omxs, modes_arg) ==
    \A p \in DOMAIN tt_omxs : RequestedModes(modes_arg) \subseteq DOMAIN tt_omxs[p].data

\* C9: load_trip_tables(handles, modes) returns whenever every requested
\* mode is stored for every period, and what it returns is a nested mapping
\* whose first-level keys are the four periods and whose second-level keys
\* are the requested modes (the 18 modes of the catalogue when modes is
\* omitted), result[p][m] holding the cells of the matrix stored under mode
\* m in the handle of period p.
C9_LoadsEveryPeriodAndMode ==
    op = "load_trip_tables" =>
        /\ AllStored(args[2], args[3]) => raised = ""
        /\ raised = "" =>
              /\ DOMAIN retval = { "am", "md", "pm", "nt" }
              /\ \A p \in DOMAIN retval :
                    /\ DOMAIN retval[p] = RequestedModes(args[3])
                    /\ \A m \in DOMAIN retval[p] : retval[p][m] = args[2][p].data[m]

\* C9's case: the mode list omitted, the 18 modes of the catalogue loaded
\* for each of the four periods, the periods' matrices differing.
C9_Witness ==
    /\ op = "load_trip_tables"
    /\ raised = ""
    /\ args[3] = <<>>
    /\ \A p \in { "am", "md", "pm", "nt" } : Cardinality(DOMAIN retval[p]) = 18
    /\ retval["am"]["WAT"] # retval["nt"]["WAT"]
    /\ retval["pm"]["SOV"] = Matrix("pm", "SOV", 7)

\* ------------------------------------------------------------------------
\* Section 3 of modxlib.py: mode_to_metamode.
\* ------------------------------------------------------------------------

\* The labels of the keys 1 to 43 of lines 247-289, in the order of the keys.
MetamodeLabels ==
    << "MBTA Bus - Local Bus",
       "MBTA Bus - Inner Express Bus",
       "MBTA Bus - Outer Express Bus",
       "Green Line",
       "Red Line",
       "Mattapan Trolley",
       "Orange Line",
       "Blue Line",
       "Commuter Rail - Fairmount Line",
       "Ferries - Inner Harbor",
       "Ferries - Outer Harbor",
       "Silver Line",
       "Sliver Line",
       "Logan Express",
       "Logan Shuttle",
       "MGH and Other Shuttles",
       "RTA Bus - Brockton RTA",
       "RTA Bus - CATA RTA",
       "RTA Bus - GATRA RTA",
       "RTA Bus - Lowell RTA",
       "RTA Bus - Merrimack RTA",
       "RTA Bus - MetroWest RTA",
       "Private Bus - Bloom",
       "Private Bus - C & J Bus",
       "Private Bus - Cavalier Bus",
       "Private Bus - Concord Coach",
       "Private Bus - Dattco Bus",
       "Private Bus - Plymouth & Brockton",
       "Private Bus - Peter Pan",
       "Private Bus - Yankee",
       "MBTA Subsidized Bus Routes",
       "Commuter Rail - Beverly / Newburyport / Rockport Line",
       "Commuter Rail - Stoughton / Providence Line",
       "Commuter Rail - Greenbush / Plymouth / Kingston / Middleborough Line",
       "Commuter Rail - Haverhill Line",
       "Commuter Rail - Lowell Line",
       "Commuter Rail - Fitchburg Line",
       "Commuter Rail - Framingham / Worcester Line",
       "Commuter Rail - Needham Line",
       "Commuter Rail - Franklin Line",
       "RTA Bus - SRTA RTA",
       "RTA Bus - Worcester RTA",
       "RTA Bus- Pioneer Valley RTA" >>

\* _mode_to_metamode_mapping_table: the keys 1 to 43, and 70.
_mode_to_metamode_mapping_table ==
    [ k \in 1..43 |-> MetamodeLabels[k] ] @@ ( 70 :> "Walk" )

\* The resolver calling the table instead of indexing it, as line 272 of the
\* 0.1.5 copy does: the faulty variant.
mode_to_metamode_called(mode) ==
    IF mode \in DOMAIN _mode_to_metamode_mapping_table
    THEN Raise("TypeError")
    ELSE Return("None")

\* mode_to_metamode(mode)
mode_to_metamode(mode) ==
    IF mode \in DOMAIN _mode_to_metamode_mapping_table
    THEN Return(_mode_to_metamode_mapping_table[mode])
    ELSE Return("None")

\* The codes the resolver is called with: every key, and codes around and
\* far from the keys.
ModeArgsOfResolver == ( -1..75 ) \cup { 9999 }

\* ------------------------------------------------------------------------
\* Section 4 of modxlib.py: bbox_of_gdf.
\*
\* A geo-dataframe is the sequence of its features, a feature being
\* [bounds |-> <<minx, miny, maxx, maxy>>], what x.bounds gives for its
\* geometry.
\* ------------------------------------------------------------------------

\* Column name of a DataFrame built from a list of dicts, as a sequence.
Column(dicts, name) == [ i \in DOMAIN dicts |-> dicts[i][name] ]

RECURSIVE SeriesMin(_)
\* Series.min() of a non-empty column.
SeriesMin(col) ==
    IF Len(col) = 1 THEN col[1]
    ELSE LET rest == SeriesMin(Tail(col))
         IN  IF Head(col) < rest THEN Head(col) ELSE rest

RECURSIVE SeriesMax(_)
\* Series.max() of a non-empty column.
SeriesMax(col) ==
    IF Len(col) = 1 THEN col[1]
    ELSE LET rest == SeriesMax(Tail(col))
         IN  IF Head(col) > rest THEN Head(col) ELSE rest

\* Lines 550-555: the bounds of each feature as a dict.
bounds_dicts(gdf) ==
    [ i \in DOMAIN gdf |->
        LET t == gdf[i].bounds
        IN  [ minx |-> t[1], miny |-> t[2], maxx |-> t[3], maxy |-> t[4] ] ]

\* bbox_of_gdf taking maxx and maxy from the minx and miny columns: the
\* faulty variant.
bbox_of_gdf_max_of_min(gdf) ==
    LET bounds_df == bounds_dicts(gdf)
    IN  IF bounds_df = <<>> THEN Raise("KeyError")
        ELSE Return([ minx |-> SeriesMin(Column(bounds_df, "minx")),
                      miny |-> SeriesMin(Column(bounds_df, "miny")),
                      maxx |-> SeriesMax(Column(bounds_df, "minx")),
                      maxy |-> SeriesMax(Column(bounds_df, "miny")) ])

\* bbox_of_gdf(gdf).  A DataFrame built from no dicts has no columns, so
\* bounds_df['minx'] raises KeyError for a geo-dataframe without features.
bbox_of_gdf(gdf) ==
    LET bounds_df == bounds_dicts(gdf)
    IN  IF bounds_df = <<>> THEN Raise("KeyError")
        ELSE Return([ minx |-> SeriesMin(Column(bounds_df, "minx")),
                      miny |-> SeriesMin(Column(bounds_df, "miny")),
                      maxx |-> SeriesMax(Column(bounds_df, "maxx")),
                      maxy |-> SeriesMax(Column(bounds_df, "maxy")) ])

\* Coordinates of the features' extents.
Coords == { -1, 0, 2 }

\* The extents a geometry can have: minx <= maxx and miny <= maxy.
Features ==
    { [ bounds |-> t ] :
        t \in { u \in Coords \X Coords \X Coords \X Coords :
                   u[1] <= u[3] /\ u[2] <= u[4] } }

\* Python's true division of one int by another (the divisor positive):
\* a float, held exactly as the fraction num/den.
truediv(a, b) == [ num |-> a, den |-> b ]

\* An int plus a float.
float_add(a, q) == [ num |-> a * q.den + q.num, den |-> q.den ]

\* center_of_bbox returning half the extent, the lower corner not added:
\* the faulty variant.
center_of_bbox_half_extent(bbox) ==
    LET center_x == truediv(bbox.maxx - bbox.minx, 2)
        center_y == truediv(bbox.maxy - bbox.miny, 2)
    IN  Return([ x |-> center_x, y |-> center_y ])

\* center_of_bbox(bbox), lines 573-578.
center_of_bbox(bbox) ==
    LET center_x == float_add(bbox.minx, truediv(bbox.maxx - bbox.minx, 2))
        center_y == float_add(bbox.miny, truediv(bbox.maxy - bbox.miny, 2))
    IN  Return([ x |-> center_x, y |-> center_y ])

\* Coordinates of the boxes handed to center_of_bbox.
BboxCoords == Coords \cup { 4, 10 }

\* The boxes handed to center_of_bbox; the function does not ask that
\* minx <= maxx or miny <= maxy.
Bboxes == [ minx : BboxCoords, miny : BboxCoords,
            maxx : BboxCoords, maxy : BboxCoords ]

\* ------------------------------------------------------------------------
\* Section 4 of modxlib.py: export_df_to_csv.
\*
\* The frames exported are [columns |-> the sequence of the column names,
\* rows |-> the sequence of the rows], a row being a function from the
\* column names to the cells.  A CSV file is [header |-> its first line,
\* rows |-> its other lines], each line a sequence of fields.
\* ------------------------------------------------------------------------

\* The leading parameters of pandas' DataFrame.to_csv after self, in the
\* order positional arguments are bound to them.
to_csv_params == << "path_or_buf", "sep", "na_rep", "float_format", "columns" >>

\* Python's binding of the arguments of a call to the parameters: the
\* positional ones in order, then the keyword ones; a keyword naming a
\* parameter a positional argument already took is a TypeError (multiple
\* values for the argument), and so is a positional argument too many.
BindArguments(params, positional, keywords) ==
    LET taken == { params[i] : i \in DOMAIN positional \cap DOMAIN params }
    IN  IF Len(positional) > Len(params) \/ taken \cap DOMAIN keywords # {}
        THEN Raise("TypeError")
        ELSE Return([ name \in taken \cup DOMAIN keywords |->
                        IF name \in taken
                        THEN positional[CHOOSE i \in DOMAIN params : params[i] = name]
                        ELSE keywords[name] ])

\* The file to_csv writes for the columns chosen: the header line and one
\* line per row, each led by the index field (index=True is the default).
CsvOf(dataframe, columns) ==
    [ header |-> << "" >> \o columns,
      rows |-> [ i \in DOMAIN dataframe.rows |->
                   << i - 1 >> \o [ j \in DOMAIN columns |->
                                      dataframe.rows[i][columns[j]] ] ] ]

\* dataframe.to_csv(*positional, **keywords): the file written under
\* path_or_buf holds the columns of the `columns` parameter, all columns
\* when it is not given.  `written` is the file system after the call.
to_csv(dataframe, positional, keywords, files) ==
    LET bound == BindArguments(to_csv_params, positional, keywords)
    IN  IF bound.raised # ""
        THEN [ retval |-> None, raised |-> bound.raised, written |-> files ]
        ELSE LET b == bound.retval
                 columns == IF "columns" \in DOMAIN b THEN b["columns"]
                            ELSE dataframe.columns
             IN  [ retval |-> None, raised |-> "",
                   written |-> ( b["path_or_buf"] :> CsvOf(dataframe, columns) )
                                   @@ files ]

\* export_df_to_csv(dataframe, csv_fn, column_list=None), lines 503-507;
\* column_list_arg is the empty sequence when column_list is omitted and the
\* sequence of the one list given otherwise.  Line 505 hands column_list to
\* to_csv as its second positional argument, which is `sep`, next to the
\* keyword sep=','.
export_df_to_csv(dataframe, csv_fn, column_list_arg, files) ==
    IF column_list_arg # <<>>
    THEN to_csv(dataframe, << csv_fn, column_list_arg[1] >>, [ sep |-> "," ], files)
    ELSE to_csv(dataframe, << csv_fn >>, [ sep |-> "," ], files)

\* The frames exported: three columns, up to two rows.
ExportColumns == << "ROUTE", "STOP", "On" >>

ExportRows ==
    { [ c \in Range(ExportColumns) |->
          CASE c = "ROUTE" -> r [] c = "STOP" -> 10 [] OTHER -> 3 * r ] :
      r \in { 1, 2 } }

ExportFrames ==
    { [ columns |-> ExportColumns, rows |-> rows ] :
        rows \in SeqsUpTo(ExportRows, MaxExportRows) }

\* The column lists export_df_to_csv is called with; none when omitted.
ColumnListArgs ==
    { << >>,
      << << >> >>,
      << << "On" >> >>,
      << << "ROUTE", "On" >> >>,
      << << "On", "STOP", "ROUTE" >> >>,
      << ExportColumns >> }

InitUtil ==
    /\ \/ \E mode \in ModeArgsOfResolver : args = << "mode_to_metamode", mode >>
       \/ \E gdf \in SeqsUpTo(Features, MaxFeatures) : args = << "bbox_of_gdf", gdf >>
       \/ \E bbox \in Bboxes : args = << "center_of_bbox", bbox >>
       \/ \E dataframe \in ExportFrames, column_list_arg \in ColumnListArgs :
              args = << "export_df_to_csv", dataframe, "out.csv", column_list_arg >>
    /\ _taz_table = <<>>
    /\ instances = <<>>
    /\ boardings_by_tod = None
    /\ op = None
    /\ retval = None
    /\ raised = ""
    /\ written = <<>>
    /\ retval_obj = None

\* The call of mode_to_metamode the run was set up for.
mode_to_metamode_call ==
    /\ op = None
    /\ args[1] = "mode_to_metamode"
    /\ LET out == mode_to_metamode(args[2])
       IN  /\ retval' = out.retval
           /\ raised' = out.raised
    /\ op' = "mode_to_metamode"
    /\ UNCHANGED << args, _taz_table, instances, boardings_by_tod, written, retval_obj >>

\* The call of bbox_of_gdf the run was set up for.
bbox_of_gdf_call ==
    /\ op = None
    /\ args[1] = "bbox_of_gdf"
    /\ LET out == bbox_of_gdf(args[2])
       IN  /\ retval' = out.retval
           /\ raised' = out.raised
    /\ op' = "bbox_of_gdf"
    /\ UNCHANGED << args, _taz_table, instances, boardings_by_tod, written, retval_obj >>

\* The call of center_of_bbox the run was set up for.
center_of_bbox_call ==
    /\ op = None
    /\ args[1] = "center_of_bbox"
    /\ LET out == center_of_bbox(args[2])
       IN  /\ retval' = out.retval
           /\ raised' = out.raised
    /\ op' = "center_of_bbox"
    /\ UNCHANGED << args, _taz_table, instances, boardings_by_tod, written, retval_obj >>

\* The call of export_df_to_csv the run was set up for.
export_df_to_csv_call ==
    /\ op = None
    /\ args[1] = "export_df_to_csv"
    /\ LET out == export_df_to_csv(args[2], args[3], args[4], written)
       IN  /\ retval' = out.retval
           /\ raised' = out.raised
           /\ written' = out.written
    /\ op' = "export_df_to_csv"
    /\ UNCHANGED << args, _taz_table, instances, boardings_by_tod, retval_obj >>

NextUtil ==
    \/ mode_to_metamode_call
    \/ bbox_of_gdf_call
    \/ center_of_bbox_call
    \/ export_df_to_csv_call

SpecUtil == InitUtil /\ [][NextUtil]_vars

\* ------------------------------------------------------------------------
\* Properties of mode_to_metamode and bbox_of_gdf.
\* ------------------------------------------------------------------------

\* C7: mode_to_metamode(code) raises for no integer code; it returns the
\* label the table maps the code to when the code is a key of the table, and
\* the string 'None' when it is not.
C7_LabelOrSentinel ==
    op = "mode_to_metamode" =>
        /\ raised = ""
        /\ \A k \in DOMAIN _mode_to_metamode_mapping_table :
              args[2] = k => retval = _mode_to_metamode_mapping_table[k]
        /\ args[2] \notin ( 1..43 ) \cup { 70 } => retval = "None"

\* C7's case: a key of the table resolved to its label.
C7_Witness ==
    /\ op = "mode_to_metamode"
    /\ raised = ""
    /\ args[2] = 12
    /\ retval = "Silver Line"

\* C10: for a geo-dataframe with at least one feature, bbox_of_gdf returns
\* the least minx and miny and the greatest maxx and maxy of the features;
\* every feature's extent lies inside the box, and minx <= maxx and
\* miny <= maxy.
C10_BoxOfExtremes ==
    ( op = "bbox_of_gdf" /\ args[2] # <<>> ) =>
        LET B == { args[2][i].bounds : i \in DOMAIN args[2] }
        IN  /\ raised = ""
            /\ \E t \in B : retval.minx = t[1]
            /\ \E t \in B : retval.miny = t[2]
            /\ \E t \in B : retval.maxx = t[3]
            /\ \E t \in B : retval.maxy = t[4]
            /\ \A t \in B :
                  /\ retval.minx <= t[1] /\ t[3] <= retval.maxx
                  /\ retval.miny <= t[2] /\ t[4] <= retval.maxy
            /\ retval.minx <= retval.maxx
            /\ retval.miny <= retval.maxy

\* C10's case: two features neither of which holds the other, the box taking
\* its four sides from both.
C10_Witness ==
    /\ op = "bbox_of_gdf"
    /\ raised = ""
    /\ Len(args[2]) = 2
    /\ args[2][1].bounds = << -1, 0, 0, 2 >>
    /\ args[2][2].bounds = << 0, -1, 2, 0 >>
    /\ retval = [ minx |-> -1, miny |-> -1, maxx |-> 2, maxy |-> 2 ]

\* C16: the record list of a tazManager object is write-once: once the
\* object is constructed, no later operation (no filter accessor, no
\* taz_ids call, no construction of a further object) changes the sequence
\* its accessors scan, so that a filter call gives the same result before
\* and after any such operation.
C16_RecordListWriteOnce ==
    [][ \A i \in DOMAIN instances :
          /\ self_taz_table(i)' = self_taz_table(i)
          /\ state_to_tazes(self_taz_table(i)', "MA")
                = state_to_tazes(self_taz_table(i), "MA") ]_vars

\* The list holds records of the table in the table's order, each as often
\* as the table holds it.
InTableOrder(list, table) ==
    list = SelectSeq(table, LAMBDA x : x \in Range(list))

C14_MissingModeRaises ==
    ( op = "load_trip_tables" /\ ~ AllStored(args[2], args[3]) ) =>
        /\ raised = "KeyError"
        /\ retval = None

\* C14's case: a requested mode is missing from the PM table alone, so the
\* AM and MD tables had been loaded when the lookup failed.
C14_Witness ==
    /\ op = "load_trip_tables"
    /\ raised = "KeyError"
    /\ \E m \in RequestedModes(args[3]) :
          /\ m \notin DOMAIN args[2]["pm"].data
          /\ m \in DOMAIN args[2]["am"].data
          /\ m \in DOMAIN args[2]["md"].data

\* ------------------------------------------------------------------------
\* Further properties of calculate_total_daily_boardings.
\* ------------------------------------------------------------------------

\* C12: calculate_total_daily_boardings returns a mapping with exactly the
\* five keys 'AM', 'MD', 'PM', 'NT' and 'daily'; the tables under the four
\* period keys are the tables it was called with, their rows, columns and
\* values unchanged, in the returned mapping and in the caller's dict alike;
\* only 'daily' is added.
C12_PeriodTablesUntouched ==
    [][ ( op = None /\ op' = "calculate_total_daily_boardings" ) =>
            /\ raised' = ""
            /\ DOMAIN retval' = Range(Periods) \cup { "daily" }
            /\ DOMAIN boardings_by_tod = Range(Periods)
            /\ \A p \in Range(Periods) :
                  /\ retval'[p] = boardings_by_tod[p]
                  /\ boardings_by_tod'[p] = boardings_by_tod[p] ]_vars

\* C12's case: the call has returned for period tables that have rows, and
\* a 'daily' table with rows stands next to them.
C12_Witness ==
    /\ Called("calculate_total_daily_boardings")
    /\ DOMAIN retval = Range(Periods) \cup { "daily" }
    /\ retval["AM"].rows /= <<>>
    /\ retval["NT"].rows /= <<>>
    /\ retval["AM"].columns = BoardingColumns
    /\ retval["daily"].rows /= <<>>

\* ------------------------------------------------------------------------
\* Further properties of tazManager.
\* ------------------------------------------------------------------------

\* The .dbf path the constructor reads for the argument fn.
DbfPathOf(fn) ==
    replace(IF fn = NoShapefile THEN _default_fq_shapefile_fn ELSE fn,
            ".shp", ".dbf")

\* The source named by fn exists and its schema lacks a required field.
SchemaLacksField(fn) ==
    /\ DbfPathOf(fn) \in DOMAIN DbfFiles
    /\ ~ (Range(RequiredFields) \subseteq DbfFieldNames[DbfPathOf(fn)])

\* The ids of the records of the source named by fn.
SourceIds(fn) ==
    { int(DbfFiles[DbfPathOf(fn)][i]["id"]) : i \in DOMAIN DbfFiles[DbfPathOf(fn)] }

\* C13: constructing a tazManager from a source whose schema lacks one of
\* the ten required fields raises MissingAttributeError, also when the
\* source has no records, and no record of that source is in the list the
\* filter accessors scan.
C13_MissingFieldRaises ==
    ( op = "tazManager" /\ SchemaLacksField(args[1]) ) =>
        /\ raised = "MissingAttributeError"
        /\ \A i \in DOMAIN _taz_table : _taz_table[i]["id"] \notin SourceIds(args[1])

\* The periods whose table holds two or more rows of pair k.
PeriodsRepeating(b, k) ==
    { p \in Range(Periods) : Len(RowsWithKey(b[p], KeyColumns, k)) >= 2 }

\* The sum of counter c over the rows of 'daily' that carry pair k.
DailySum(b, k, c) == SumOver(b["daily"].rows, k, c)

\* C18 as stated: the function does not check that keys are unique; when a
\* period table holds two rows of one (ROUTE, STOP) pair the call still
\* returns, and the daily counters of that pair, summed over the rows of
\* 'daily' that carry it, exceed the true sum of the input rows, the other
\* periods' counts being included more than once.
C18_RepeatedKey_ExceedsTrueSum ==
    op = "calculate_total_daily_boardings" =>
        /\ raised = ""
        /\ \A k \in InputKeys(boardings_by_tod) :
              PeriodsRepeating(boardings_by_tod, k) # {} =>
                  \E c \in CounterSet :
                      DailySum(boardings_by_tod, k, c) > TrueSum(boardings_by_tod, k, c)

\* C18 as amended: when a period table holds two rows of one (ROUTE, STOP)
\* pair the call still returns and 'daily' holds two or more rows of that
\* pair; each daily counter of the pair, summed over those rows, is at
\* least the true sum of the input rows, and it exceeds the true sum
\* whenever another period holds the pair with a non-zero value of that
\* counter, that value being included once for each repeated row; when no
\* other period holds the pair, it equals the true sum.
C18_RepeatedKey_CountsOthersAgain ==
    op = "calculate_total_daily_boardings" =>
        /\ raised = ""
        /\ \A k \in InputKeys(boardings_by_tod) :
              \A q \in PeriodsRepeating(boardings_by_tod, k) :
                  /\ Len(RowsWithKey(boardings_by_tod["daily"], KeyColumns, k)) >= 2
                  /\ \A c \in CounterSet :
                        /\ DailySum(boardings_by_tod, k, c)
                              >= TrueSum(boardings_by_tod, k, c)
                        /\ ( \E p \in Range(Periods) \ {q} :
                                 SumOver(boardings_by_tod[p].rows, k, c) > 0 ) =>
                              DailySum(boardings_by_tod, k, c)
                                  > TrueSum(boardings_by_tod, k, c)
                        /\ ( \A p \in Range(Periods) \ {q} :
                                 k \notin FrameKeys(boardings_by_tod[p]) ) =>
                              DailySum(boardings_by_tod, k, c)
                                  = TrueSum(boardings_by_tod, k, c)

\* C18's case: AM holds a pair twice and PM holds it once with non-zero
\* counts; 'daily' has two rows of the pair and counts PM's boardings twice.
C18_Witness ==
    /\ Called("calculate_total_daily_boardings")
    /\ \E k \in FrameKeys(boardings_by_tod["PM"]) :
          /\ "AM" \in PeriodsRepeating(boardings_by_tod, k)
          /\ SumOver(boardings_by_tod["PM"].rows, k, "On") > 0
          /\ Len(RowsWithKey(boardings_by_tod["daily"], KeyColumns, k)) = 2
          /\ DailySum(boardings_by_tod, k, "On")
                = TrueSum(boardings_by_tod, k, "On")
                    + SumOver(boardings_by_tod["PM"].rows, k, "On")

\* C20: the daily total depends neither on the period a table is assigned
\* to nor on the order in which the joins pair the tables: for four period
\* tables with unique keys, calling the aggregation with the four tables
\* permuted among 'AM', 'MD', 'PM' and 'NT' gives a 'daily' with the same
\* set of (ROUTE, STOP) rows and the same counter values in each row.
C20_DailySameUnderPermutation ==
    ( op = "calculate_total_daily_boardings" /\ Len(args) = 2
        /\ UniqueKeys(boardings_by_tod) ) =>
        /\ raised = ""
        /\ FrameKeys(retval["daily"]) = FrameKeys(boardings_by_tod["daily"])
        /\ Range(retval["daily"].rows) = Range(boardings_by_tod["daily"].rows)
        /\ Len(retval["daily"].rows) = Len(boardings_by_tod["daily"].rows)

\* C20's case: AM and PM hold one pair with non-zero counts and the second
\* call moves PM's table to MD, so that the pair is summed in the first
\* join instead of the last; the daily row is the same.
C20_Witness ==
    /\ op = "calculate_total_daily_boardings"
    /\ Len(args) = 2
    /\ UniqueKeys(boardings_by_tod)
    /\ args[2]["MD"] = "PM"
    /\ args[2]["AM"] = "AM"
    /\ \E k \in FrameKeys(boardings_by_tod["AM"]) \cap FrameKeys(boardings_by_tod["PM"]) :
          /\ SumOver(boardings_by_tod["AM"].rows, k, "On") > 0
          /\ SumOver(boardings_by_tod["PM"].rows, k, "On") > 0
          /\ SumOver(retval["daily"].rows, k, "On") = TrueSum(boardings_by_tod, k, "On")
    /\ retval["daily"] = boardings_by_tod["daily"]

\* ------------------------------------------------------------------------
\* Properties of import_transit_assignment.
\* ------------------------------------------------------------------------

RECURSIVE FilesSum(_, _, _)
\* The sum of counter c of pair k over the files of a directory, a file
\* without the pair giving zero.
FilesSum(files, k, c) ==
    IF files = <<>> THEN 0
    ELSE SumOver(Head(files).rows, k, c) + FilesSum(Tail(files), k, c)

\* The frame is the column-wise sum of the files, matched by (ROUTE, STOP),
\* with ROUTE and STOP as ordinary columns.
IsSumOfFiles(df, files) ==
    /\ df.columns = BoardingColumns
    /\ FrameKeys(df) = UNION { FrameKeys(files[i]) : i \in DOMAIN files }
    /\ \A k \in FrameKeys(df) :
          /\ Len(RowsWithKey(df, KeyColumns, k)) = 1
          /\ \A c \in CounterSet :
                RowsWithKey(df, KeyColumns, k)[1][c] = FilesSum(files, k, c)

\* C19: import_transit_assignment(scenario), every period directory of the
\* scenario holding a CSV file, returns a mapping with the five keys 'AM',
\* 'MD', 'PM', 'NT' and 'daily'; the table of each period is the
\* column-wise sum of the CSV files of that period's directory, matched by
\* (ROUTE, STOP), a file without the row giving zero; ROUTE and STOP are
\* ordinary columns of each table.
C19_ImportSumsPeriodFiles ==
    ( op = "import_transit_assignment"
        /\ \A tod \in Range(Periods) : glob_csv(args[2] \o "out/", tod \o "/") # <<>> ) =>
        /\ raised = ""
        /\ DOMAIN retval = Range(Periods) \cup { "daily" }
        /\ \A tod \in Range(Periods) :
              IsSumOfFiles(retval[tod], glob_csv(args[2] \o "out/", tod \o "/"))
        /\ Range(KeyColumns) \subseteq retval["daily"].columns

\* ------------------------------------------------------------------------
\* Properties of export_df_to_csv.
\* ------------------------------------------------------------------------

\* C15: export_df_to_csv(dataframe, csv_fn, column_list) returns normally
\* and the file csv_fn then holds, after the index field, exactly the
\* columns of column_list when a list is given, and all columns of the
\* frame when it is omitted.
C15_ExportsListedColumns ==
    op = "export_df_to_csv" =>
        /\ raised = ""
        /\ args[3] \in DOMAIN written
        /\ Tail(written[args[3]].header) =
              ( IF args[4] # <<>> THEN args[4][1] ELSE args[2].columns )

\* ------------------------------------------------------------------------
\* Properties of center_of_bbox.
\* ------------------------------------------------------------------------

\* The float q equals the int n.
FloatIs(q, n) == q.num = n * q.den

\* The float q lies between the ints lo and hi.
FloatWithin(q, lo, hi) == lo * q.den <= q.num /\ q.num <= hi * q.den

\* The box of the worked example.
ExampleBbox == [ minx |-> 0, miny |-> 0, maxx |-> 10, maxy |-> 4 ]

\* C11: center_of_bbox returns the point halfway between the corners,
\* x = minx + (maxx - minx)/2 and y = miny + (maxy - miny)/2 (twice x is
\* minx + maxx, twice y is miny + maxy); for a box with minx <= maxx and
\* miny <= maxy the point lies inside the box; the box 0, 0, 10, 4 gives
\* the point 5, 2.
C11_MidpointInsideBox ==
    op = "center_of_bbox" =>
        LET bbox == args[2]
        IN  /\ raised = ""
            /\ DOMAIN retval = { "x", "y" }
            /\ 2 * retval.x.num = (bbox.minx + bbox.maxx) * retval.x.den
            /\ 2 * retval.y.num = (bbox.miny + bbox.maxy) * retval.y.den
            /\ (bbox.minx <= bbox.maxx /\ bbox.miny <= bbox.maxy) =>
                   /\ FloatWithin(retval.x, bbox.minx, bbox.maxx)
                   /\ FloatWithin(retval.y, bbox.miny, bbox.maxy)
            /\ bbox = ExampleBbox =>
                   FloatIs(retval.x, 5) /\ FloatIs(retval.y, 2)

\* The centre of the box of the worked example has been computed.
C11_Witness ==
    /\ op = "center_of_bbox"
    /\ raised = ""
    /\ args[2] = ExampleBbox
    /\ FloatIs(retval.x, 5)
    /\ FloatIs(retval.y, 2)

=============================================================================
